---- MODULE Spec2Model ----
(***************************************************************************)
(* Contact Management System (advanced-contact-manager.c).                 *)
(*                                                                         *)
(* Strings are sequences of one-character strings; a C buffer char[N]      *)
(* holds a string of at most N-1 characters.  The store is the global      *)
(* array contacts[0..contact_count-1], modelled as the sequence contacts   *)
(* (contact_count = Len(contacts)).  Files are sequences of lines.         *)
(***************************************************************************)
EXTENDS Integers, Sequences, FiniteSets, TLC

(***************************************************************************)
(* Characters                                                              *)
(***************************************************************************)

\* The printable ASCII characters below the grave accent, in code order:
\* Printable[i] has code 31+i.  The lowercase letters follow from code 97.
Printable ==
  << " ", "!", "\"", "#", "$", "%", "&", "'", "(", ")", "*", "+", ",", "-", ".", "/",
     "0", "1", "2", "3", "4", "5", "6", "7", "8", "9", ":", ";", "<", "=", ">", "?",
     "@", "A", "B", "C", "D", "E", "F", "G", "H", "I", "J", "K", "L", "M", "N", "O",
     "P", "Q", "R", "S", "T", "U", "V", "W", "X", "Y", "Z", "[", "\\", "]", "^", "_" >>

Upper == << "A", "B", "C", "D", "E", "F", "G", "H", "I", "J", "K", "L", "M",
            "N", "O", "P", "Q", "R", "S", "T", "U", "V", "W", "X", "Y", "Z" >>

Lower == << "a", "b", "c", "d", "e", "f", "g", "h", "i", "j", "k", "l", "m",
            "n", "o", "p", "q", "r", "s", "t", "u", "v", "w", "x", "y", "z" >>

Digit == {"0", "1", "2", "3", "4", "5", "6", "7", "8", "9"}

UpperSet == {Upper[i] : i \in 1..26}

LowerSet == {Lower[i] : i \in 1..26}

Letter == UpperSet \cup LowerSet

\* The byte value of a character (unsigned char).
code ==
  [c \in {Printable[i] : i \in 1..64} \cup LowerSet \cup {"\t", "\n", "\r"} |->
     IF c = "\t" THEN 9
     ELSE IF c = "\n" THEN 10
     ELSE IF c = "\r" THEN 13
     ELSE IF c \in LowerSet THEN 96 + (CHOOSE i \in 1..26 : Lower[i] = c)
     ELSE 31 + (CHOOSE i \in 1..64 : Printable[i] = c)]

\* tolower() in the C locale.
tolower ==
  [c \in DOMAIN code |->
     IF c \in UpperSet THEN Lower[CHOOSE i \in 1..26 : Upper[i] = c] ELSE c]

\* isspace() in the C locale (of the characters of the model).
isspace(c) == c \in {" ", "\t", "\n", "\r"}

(***************************************************************************)
(* String helpers                                                          *)
(***************************************************************************)

\* What snprintf(buf, size, "%s", s) and fgets-into-buf leave in a buffer of
\* `size` bytes: the first size-1 characters of s.
Take(s, n) == IF Len(s) <= n THEN s ELSE SubSeq(s, 1, n)

Drop(s, n) == IF Len(s) <= n THEN <<>> ELSE SubSeq(s, n + 1, Len(s))

AllIn(s, lo, hi, set) == \A i \in lo..hi : s[i] \in set

\* Index of the first occurrence of c in s, 0 when there is none (strchr).
IndexOf(s, c) ==
  IF \E i \in 1..Len(s) : s[i] = c
  THEN CHOOSE i \in 1..Len(s) : s[i] = c /\ \A j \in 1..(i - 1) : s[j] # c
  ELSE 0

\* Index of the last occurrence of c in s, 0 when there is none.
LastIndexOf(s, c) ==
  IF \E i \in 1..Len(s) : s[i] = c
  THEN CHOOSE i \in 1..Len(s) : s[i] = c /\ \A j \in (i + 1)..Len(s) : s[j] # c
  ELSE 0

\* strncmp(s, prefix, strlen(prefix)) == 0
HasPrefix(s, prefix) ==
  /\ Len(s) >= Len(prefix)
  /\ SubSeq(s, 1, Len(prefix)) = prefix

ToLower(s) == [i \in 1..Len(s) |-> tolower[s[i]]]

Min(a, b) == IF a <= b THEN a ELSE b

\* Index of the first position at which a and b differ, 0 when one is a
\* prefix of the other.
FirstDiff(a, b) ==
  LET n == Min(Len(a), Len(b))
  IN IF \E i \in 1..n : a[i] # b[i]
     THEN CHOOSE i \in 1..n : a[i] # b[i] /\ \A j \in 1..(i - 1) : a[j] = b[j]
     ELSE 0

\* Sign of strcmp(a, b): -1, 0 or 1 (byte-wise lexicographic order; the
\* terminating NUL is below every character).
strcmp(a, b) ==
  LET d == FirstDiff(a, b)
  IN IF d = 0
     THEN (IF Len(a) < Len(b) THEN -1 ELSE IF Len(a) > Len(b) THEN 1 ELSE 0)
     ELSE (IF code[a[d]] < code[b[d]] THEN -1 ELSE 1)

\* A loop for (k = lo; k <= hi; k++) st = Body(st, k): the state it ends in.
\* The iterations are grouped in halves; the comparison only makes the first
\* half's state be computed before the second half starts.
RECURSIVE For(_, _, _, _)
For(Body(_, _), lo, hi, st) ==
  IF lo > hi THEN st
  ELSE IF lo = hi THEN Body(st, lo)
  ELSE LET mid == lo + (hi - lo) \div 2
           s1 == For(Body, lo, mid, st)
       IN IF s1 = st THEN For(Body, mid + 1, hi, st) ELSE For(Body, mid + 1, hi, s1)

\* Sign of strcasecmp(a, b): strcmp of the lowercased strings.
strcasecmp(a, b) == strcmp(ToLower(a), ToLower(b))

\* strstr(hay, needle) != NULL
strstr(hay, needle) ==
  \E i \in 0..(Len(hay) - Len(needle)) : SubSeq(hay, i + 1, i + Len(needle)) = needle

(***************************************************************************)
(* Program constants                                                       *)
(***************************************************************************)

MAX_CONTACTS == 100

MAX_NAME_LENGTH == 50

MAX_PHONE_LENGTH == 17

MAX_EMAIL_LENGTH == 254

(***************************************************************************)
(* Field validator (validate_with_regex with the three patterns)           *)
(***************************************************************************)

\* NAME_REGEX  ^[A-Za-z][A-Za-z '-]{0,48}[A-Za-z]$
NAME_REGEX(s) ==
  /\ Len(s) >= 2
  /\ Len(s) <= 50
  /\ s[1] \in Letter
  /\ s[Len(s)] \in Letter
  /\ AllIn(s, 2, Len(s) - 1, Letter \cup {" ", "'", "-"})

\* PHONE_REGEX  ^((\+91[6-9][0-9]{9})|([6-9][0-9]{9})|(\+[1-9][0-9]{6,14}))$
PHONE_REGEX(s) ==
  \/ /\ Len(s) = 13
     /\ SubSeq(s, 1, 3) = <<"+", "9", "1">>
     /\ s[4] \in {"6", "7", "8", "9"}
     /\ AllIn(s, 5, 13, Digit)
  \/ /\ Len(s) = 10
     /\ s[1] \in {"6", "7", "8", "9"}
     /\ AllIn(s, 2, 10, Digit)
  \/ /\ Len(s) >= 8
     /\ Len(s) <= 16
     /\ s[1] = "+"
     /\ s[2] \in Digit \ {"0"}
     /\ AllIn(s, 3, Len(s), Digit)

\* EMAIL_REGEX  ^[a-z0-9._%+-]+@[a-zA-Z0-9.-]+\.[a-zA-Z]{2,}$
\* Neither character class holds '@', so the '@' is the only one of s; the last
\* class holds no '.', so the '.' before it is the last one of s.
EMAIL_REGEX(s) ==
  LET at == IndexOf(s, "@")
      dot == LastIndexOf(s, ".")
  IN /\ at >= 2
     /\ AllIn(s, 1, at - 1, LowerSet \cup Digit \cup {".", "_", "%", "+", "-"})
     /\ dot >= at + 2
     /\ AllIn(s, at + 1, dot - 1, Letter \cup Digit \cup {".", "-"})
     /\ Len(s) >= dot + 2
     /\ AllIn(s, dot + 1, Len(s), Letter)

\* CONFIRM_REGEX  ^[yYnN]$
CONFIRM_REGEX(s) == Len(s) = 1 /\ s[1] \in {"y", "Y", "n", "N"}

\* SORT_CHOICE_REGEX  ^[1-3]$
SORT_CHOICE_REGEX(s) == Len(s) = 1 /\ s[1] \in {"1", "2", "3"}

(***************************************************************************)
(* Sanitizer                                                               *)
(***************************************************************************)

RECURSIVE TrimLeft(_)
TrimLeft(s) == IF s # <<>> /\ isspace(Head(s)) THEN TrimLeft(Tail(s)) ELSE s

RECURSIVE TrimRight(_)
TrimRight(s) ==
  IF s # <<>> /\ isspace(s[Len(s)]) THEN TrimRight(SubSeq(s, 1, Len(s) - 1)) ELSE s

trim_whitespace(s) == TrimRight(TrimLeft(s))

replace_commas(s) == [i \in 1..Len(s) |-> IF s[i] = "," THEN " " ELSE s[i]]

sanitize_contact(c) ==
  [name |-> replace_commas(trim_whitespace(c.name)),
   phone |-> replace_commas(trim_whitespace(c.phone)),
   email |-> replace_commas(trim_whitespace(c.email))]

ValidContact(c) == NAME_REGEX(c.name) /\ PHONE_REGEX(c.phone) /\ EMAIL_REGEX(c.email)

Contact(n, p, e) == [name |-> n, phone |-> p, email |-> e]

(***************************************************************************)
(* Interactive input (get_input, get_validated_input)                      *)
(***************************************************************************)

\* get_input: fgets keeps the first size-1 characters of the typed line and
\* flushes the rest; the newline is cut and the buffer trimmed.
get_input(raw, size) == trim_whitespace(Take(raw, size - 1))

\* "^[1-2]$", the pattern of the search type.
SEARCH_TYPE_REGEX(s) == Len(s) = 1 /\ s[1] \in {"1", "2"}

\* validate_with_regex(pattern, input): whether regexec matches the input
\* against the named pattern.
validate_with_regex(pattern, input) ==
  CASE pattern = "NAME_REGEX" -> NAME_REGEX(input)
    [] pattern = "PHONE_REGEX" -> PHONE_REGEX(input)
    [] pattern = "EMAIL_REGEX" -> EMAIL_REGEX(input)
    [] pattern = "CONFIRM_REGEX" -> CONFIRM_REGEX(input)
    [] pattern = "SORT_CHOICE_REGEX" -> SORT_CHOICE_REGEX(input)
    [] pattern = "SEARCH_TYPE_REGEX" -> SEARCH_TYPE_REGEX(input)

\* get_validated_input returns with the buffer `buf` when it is empty and
\* allow_empty is set, or when it matches the pattern; every other buffer is
\* answered by a new prompt.
get_validated_input(buf, pattern, allow_empty) ==
  IF buf = <<>> THEN allow_empty ELSE validate_with_regex(pattern, buf)

get_valid_input(buf, pattern) == get_validated_input(buf, pattern, FALSE)

get_optional_valid_input(buf, pattern) == get_validated_input(buf, pattern, TRUE)

(***************************************************************************)
(* Files                                                                   *)
(***************************************************************************)

\* A file that does not exist (fopen for reading returns NULL), and a file
\* holding the given lines of text.
NoFile == [exists |-> FALSE, lines |-> <<>>]

File(lines) == [exists |-> TRUE, lines |-> lines]

\* Buffer sizes of the two definitions of load_contacts and of import_from_vcf.
LINE_BUF == 512

LINE_BUF_OLD == 100

\* The successive results of fgets(line, size, file) on one line of text
\* (given without its newline), each already cut at its newline: a line that
\* does not fit, newline included, in size-1 characters comes in pieces.
RECURSIVE fgets(_, _)
fgets(l, size) ==
  IF Len(l) + 1 <= size - 1 THEN <<l>>
  ELSE <<Take(l, size - 1)>> \o fgets(Drop(l, size - 1), size)

\* All the results of fgets over the lines of a file, in order.
ReadLines(lines, size) ==
  For(LAMBDA out, k : out \o fgets(lines[k], size), 1, Len(lines), <<>>)

(***************************************************************************)
(* CSV codec                                                               *)
(***************************************************************************)

\* Length of the longest prefix of s, of at most max characters, that holds
\* no character of `stop`: what a %max[^stop] conversion consumes.
ScanSet(s, max, stop) ==
  LET n == Min(Len(s), max)
  IN IF \E i \in 1..n : s[i] \in stop
     THEN (CHOOSE i \in 1..n : s[i] \in stop /\ \A j \in 1..(i - 1) : s[j] \notin stop) - 1
     ELSE n

\* sscanf(line, "%49[^,], %16[^,], %253[^\n]", name, phone, email): the number
\* of conversions (n) and the converted fields.  A literal ',' must follow each
\* of the first two fields; the blank of the format skips any white space.
sscanf(line) ==
  LET n1 == ScanSet(line, MAX_NAME_LENGTH - 1, {","})
      r1 == Drop(line, n1)
      s2 == IF r1 # <<>> /\ Head(r1) = "," THEN TrimLeft(Tail(r1)) ELSE <<>>
      n2 == ScanSet(s2, MAX_PHONE_LENGTH - 1, {","})
      r2 == Drop(s2, n2)
      s3 == IF r2 # <<>> /\ Head(r2) = "," THEN TrimLeft(Tail(r2)) ELSE <<>>
      n3 == ScanSet(s3, MAX_EMAIL_LENGTH - 1, {"\n"})
  IN [n |-> IF n1 = 0 THEN 0 ELSE IF n2 = 0 THEN 1 ELSE IF n3 = 0 THEN 2 ELSE 3,
      c |-> Contact(Take(line, n1), Take(s2, n2), Take(s3, n3))]

\* LoadLine without the test of contact_count against MAX_CONTACTS.
LoadLine_NoLimit(store, line) ==
  LET r == sscanf(line)
      c == sanitize_contact(r.c)
  IN IF r.n # 3 THEN store
     ELSE IF ~ValidContact(c) THEN store
     ELSE Append(store, c)

\* LoadLine without the validation of the sanitized record.
LoadLine_NoValidation(store, line) ==
  IF Len(store) >= MAX_CONTACTS THEN store
  ELSE LET r == sscanf(line)
       IN IF r.n # 3 THEN store ELSE Append(store, sanitize_contact(r.c))

\* One iteration of the read loop of load_contacts, on the line fgets
\* delivered; once contact_count reaches MAX_CONTACTS the loop has ended.
LoadLine(store, line) ==
  IF Len(store) >= MAX_CONTACTS THEN store
  ELSE LET r == sscanf(line)
           c == sanitize_contact(r.c)
       IN IF r.n # 3 THEN store
          ELSE IF ~ValidContact(c) THEN store
          ELSE Append(store, c)

\* The read loop of load_contacts over the lines fgets delivers.
LoadLoop(lines, store) ==
  For(LAMBDA st, k : LoadLine(st, lines[k]), 1, Len(lines), store)

\* load_contacts with a line buffer of `size` bytes: the store it leaves.
load_contacts(file, size, store) ==
  IF ~file.exists THEN store ELSE LoadLoop(ReadLines(file.lines, size), <<>>)

\* fprintf(file, "%s, %s, %s\n", name, phone, email)
CsvLine(c) == c.name \o <<",", " ">> \o c.phone \o <<",", " ">> \o c.email

(***************************************************************************)
(* vCard codec                                                             *)
(***************************************************************************)

FN == <<"F", "N", ":">>

TEL == <<"T", "E", "L">>

EMAIL == <<"E", "M", "A", "I", "L">>

END_VCARD == <<"E", "N", "D", ":", "V", "C", "A", "R", "D">>

BEGIN_VCARD == <<"B", "E", "G", "I", "N", ":", "V", "C", "A", "R", "D">>

VERSION_3 == <<"V", "E", "R", "S", "I", "O", "N", ":", "3", ".", "0">>

TEL_CELL == <<"T", "E", "L", ";", "T", "Y", "P", "E", "=", "C", "E", "L", "L", ":">>

EMAIL_WORK == <<"E", "M", "A", "I", "L", ";", "T", "Y", "P", "E", "=", "W", "O", "R", "K", ":">>

\* line[strcspn(line, "\r\n")] = 0
CutAtEol(l) ==
  LET n == ScanSet(l, Len(l), {"\r", "\n"}) IN Take(l, n)

\* AfterColon that keeps the ':' (p instead of p + 1).
AfterColon_FromColon(l) == Drop(l, IndexOf(l, ":") - 1)

\* The text after the first ':' of a line (strchr(line, ':') + 1).
AfterColon(l) == Drop(l, IndexOf(l, ":"))

\* ImportLine that leaves the accumulators as they are at END:VCARD.
ImportLine_NoReset(st, l) ==
  IF HasPrefix(l, FN)
  THEN [st EXCEPT !.name = Take(Drop(l, 3), MAX_NAME_LENGTH - 1)]
  ELSE IF HasPrefix(l, TEL)
  THEN IF IndexOf(l, ":") # 0
       THEN [st EXCEPT !.phone = Take(AfterColon(l), MAX_PHONE_LENGTH - 1)]
       ELSE st
  ELSE IF HasPrefix(l, EMAIL)
  THEN IF IndexOf(l, ":") # 0
       THEN [st EXCEPT !.email = Take(AfterColon(l), MAX_EMAIL_LENGTH - 1)]
       ELSE st
  ELSE IF HasPrefix(l, END_VCARD)
  THEN LET c == sanitize_contact(Contact(st.name, st.phone, st.email))
       IN [st EXCEPT !.store = IF Len(st.store) < MAX_CONTACTS /\ ValidContact(c)
                               THEN Append(st.store, c)
                               ELSE st.store]
  ELSE st

\* ImportLine without the test of contact_count against MAX_CONTACTS.
ImportLine_NoLimit(st, l) ==
  IF HasPrefix(l, FN)
  THEN [st EXCEPT !.name = Take(Drop(l, 3), MAX_NAME_LENGTH - 1)]
  ELSE IF HasPrefix(l, TEL)
  THEN IF IndexOf(l, ":") # 0
       THEN [st EXCEPT !.phone = Take(AfterColon(l), MAX_PHONE_LENGTH - 1)]
       ELSE st
  ELSE IF HasPrefix(l, EMAIL)
  THEN IF IndexOf(l, ":") # 0
       THEN [st EXCEPT !.email = Take(AfterColon(l), MAX_EMAIL_LENGTH - 1)]
       ELSE st
  ELSE IF HasPrefix(l, END_VCARD)
  THEN LET c == sanitize_contact(Contact(st.name, st.phone, st.email))
       IN [name |-> <<>>, phone |-> <<>>, email |-> <<>>,
           store |-> IF ValidContact(c) THEN Append(st.store, c) ELSE st.store]
  ELSE st

\* One iteration of the scan loop of import_from_vcf: the accumulators
\* (name, phone, email) and the store after the line l.
ImportLine(st, l) ==
  IF HasPrefix(l, FN)
  THEN [st EXCEPT !.name = Take(Drop(l, 3), MAX_NAME_LENGTH - 1)]
  ELSE IF HasPrefix(l, TEL)
  THEN IF IndexOf(l, ":") # 0
       THEN [st EXCEPT !.phone = Take(AfterColon(l), MAX_PHONE_LENGTH - 1)]
       ELSE st
  ELSE IF HasPrefix(l, EMAIL)
  THEN IF IndexOf(l, ":") # 0
       THEN [st EXCEPT !.email = Take(AfterColon(l), MAX_EMAIL_LENGTH - 1)]
       ELSE st
  ELSE IF HasPrefix(l, END_VCARD)
  THEN LET c == sanitize_contact(Contact(st.name, st.phone, st.email))
       IN [name |-> <<>>, phone |-> <<>>, email |-> <<>>,
           store |-> IF Len(st.store) < MAX_CONTACTS /\ ValidContact(c)
                     THEN Append(st.store, c)
                     ELSE st.store]
  ELSE st

ImportLoop(lines, st) ==
  For(LAMBDA s, k : ImportLine(s, CutAtEol(lines[k])), 1, Len(lines), st)

\* import_from_vcf: the store it leaves.
import_from_vcf(file, store) ==
  IF ~file.exists THEN store
  ELSE ImportLoop(ReadLines(file.lines, LINE_BUF),
                  [name |-> <<>>, phone |-> <<>>, email |-> <<>>, store |-> store]).store

\* The card export_to_vcf writes for one contact.
VCard(c) ==
  << BEGIN_VCARD, VERSION_3, FN \o c.name, TEL_CELL \o c.phone,
     EMAIL_WORK \o c.email, END_VCARD >>

export_to_vcf(store) ==
  For(LAMBDA out, k : out \o VCard(store[k]), 1, Len(store), <<>>)

(***************************************************************************)
(* Store operations                                                        *)
(***************************************************************************)

\* Index (from 1) of the first contact whose name equals `name` under
\* strcasecmp, 0 when there is none: the search loop of update and delete.
FirstMatch(store, name) ==
  IF \E i \in 1..Len(store) : strcasecmp(store[i].name, name) = 0
  THEN CHOOSE i \in 1..Len(store) :
         /\ strcasecmp(store[i].name, name) = 0
         /\ \A j \in 1..(i - 1) : strcasecmp(store[j].name, name) # 0
  ELSE 0

\* ShiftLeft starting one slot late: the contact after the match is lost.
ShiftLeft_OneLate(store, i) ==
  [j \in 1..(Len(store) - 1) |-> IF j <= i THEN store[j] ELSE store[j + 1]]

\* The shift loop of delete_contacts: contacts[j] = contacts[j + 1] from the
\* deleted slot on, then contact_count--.
ShiftLeft(store, i) ==
  [j \in 1..(Len(store) - 1) |-> IF j < i THEN store[j] ELSE store[j + 1]]

\* Confirmed taking every answer for a yes.
Confirmed_Always(confirm) == TRUE

\* The answer that makes delete_contacts remove the contact.
Confirmed(confirm) == confirm[1] \in {"y", "Y"}

\* NameTaken without the search of the other slots.
NameTaken_Never(store, i, new_name) == FALSE

\* NameTaken with strcmp in the place of strcasecmp.
NameTaken_CaseSensitive(store, i, new_name) ==
  \E j \in 1..Len(store) : j # i /\ strcmp(store[j].name, new_name) = 0

\* The duplicate check of update_contact: another slot holds new_name.
NameTaken(store, i, new_name) ==
  \E j \in 1..Len(store) : j # i /\ strcasecmp(store[j].name, new_name) = 0

\* UpdateField without the test for an empty input.
UpdateField_NoEmptyTest(old, new) == IF strcmp(new, old) # 0 THEN new ELSE old

\* A field of the contact after one prompt of update_contact.
UpdateField(old, new) == IF new # <<>> /\ strcmp(new, old) # 0 THEN new ELSE old

(***************************************************************************)
(* Sort engine                                                             *)
(***************************************************************************)

SORT_BY_NAME == "name"

SORT_BY_PHONE == "phone"

SORT_BY_EMAIL == "email"

\* Compare with strcmp for every field.
Compare_AllExact(a, b, field) ==
  IF field = SORT_BY_NAME THEN strcmp(a.name, b.name)
  ELSE IF field = SORT_BY_PHONE THEN strcmp(a.phone, b.phone)
  ELSE strcmp(a.email, b.email)

\* The comparison of merge for the chosen field.
Compare(a, b, field) ==
  IF field = SORT_BY_NAME THEN strcasecmp(a.name, b.name)
  ELSE IF field = SORT_BY_PHONE THEN strcmp(a.phone, b.phone)
  ELSE strcasecmp(a.email, b.email)

\* MergeStep taking the element of R when the comparison yields equal.
MergeStep_RightOnTie(st, L, R, field) ==
  IF st.i < Len(L) /\ st.j < Len(R)
  THEN IF Compare(L[st.i + 1], R[st.j + 1], field) < 0
       THEN [i |-> st.i + 1, j |-> st.j, out |-> Append(st.out, L[st.i + 1])]
       ELSE [i |-> st.i, j |-> st.j + 1, out |-> Append(st.out, R[st.j + 1])]
  ELSE IF st.i < Len(L)
  THEN [i |-> st.i + 1, j |-> st.j, out |-> Append(st.out, L[st.i + 1])]
  ELSE [i |-> st.i, j |-> st.j + 1, out |-> Append(st.out, R[st.j + 1])]

\* One assignment arr[k++] = ... of merge, with i and j counting the elements
\* already taken from L and R: from the comparing loop while both have
\* elements left, then from the loop that copies the rest of L or of R.
MergeStep(st, L, R, field) ==
  IF st.i < Len(L) /\ st.j < Len(R)
  THEN IF Compare(L[st.i + 1], R[st.j + 1], field) <= 0
       THEN [i |-> st.i + 1, j |-> st.j, out |-> Append(st.out, L[st.i + 1])]
       ELSE [i |-> st.i, j |-> st.j + 1, out |-> Append(st.out, R[st.j + 1])]
  ELSE IF st.i < Len(L)
  THEN [i |-> st.i + 1, j |-> st.j, out |-> Append(st.out, L[st.i + 1])]
  ELSE [i |-> st.i, j |-> st.j + 1, out |-> Append(st.out, R[st.j + 1])]

\* The three loops of merge over the copies L and R: arr[left .. right].
MergeLoop(L, R, field) ==
  For(LAMBDA st, k : MergeStep(st, L, R, field), 1, Len(L) + Len(R),
      [i |-> 0, j |-> 0, out |-> <<>>]).out

\* merge(arr, left, mid, right, field), with the indices of the C array.
merge(arr, left, mid, right, field) ==
  LET L == SubSeq(arr, left + 1, mid + 1)
      R == SubSeq(arr, mid + 2, right + 1)
  IN SubSeq(arr, 1, left) \o MergeLoop(L, R, field) \o SubSeq(arr, right + 2, Len(arr))

\* merge_sort: the array after sorting arr[left .. right].  (The comparison
\* of a1 with arr only makes the left half be sorted before the right one.)
RECURSIVE merge_sort(_, _, _, _)
merge_sort(arr, left, right, field) ==
  IF left < right
  THEN LET mid == left + (right - left) \div 2
           a1 == merge_sort(arr, left, mid, field)
           a2 == IF a1 = arr
                 THEN merge_sort(arr, mid + 1, right, field)
                 ELSE merge_sort(a1, mid + 1, right, field)
       IN merge(a2, left, mid, right, field)
  ELSE arr

\* The field sort_contacts derives from the accepted choice.
SortField(choice) ==
  IF choice = <<"1">> THEN SORT_BY_NAME
  ELSE IF choice = <<"2">> THEN SORT_BY_PHONE
  ELSE SORT_BY_EMAIL

(***************************************************************************)
(* Inputs of the model                                                     *)
(***************************************************************************)

\* Number of menu commands of one session.
MaxOps == 2

\* Size of the stores the persistence specifications start from.
MaxStore == 2

Rep(c, n) == [i \in 1..n |-> c]

Al == <<"A", "l">>

al == <<"a", "l">>

Bo == <<"B", "o">>

Eve == <<"E", "v", "e">>

P1 == <<"9", "8", "7", "6", "5", "4", "3", "2", "1", "0">>

P2 == <<"+", "1", "4", "1", "5", "5", "5", "5", "2", "6", "7", "1">>

E1 == <<"a", "@", "b", ".", "c", "o">>

E2 == <<"z", "@", "y", ".", "o", "r", "g">>

\* A name of 49, a phone of 16 and an email of 253 characters: the longest
\* the buffers of a Contact hold.
LongName == <<"M">> \o Rep("a", MAX_NAME_LENGTH - 3) \o <<"x">>

LongPhone == <<"+", "1">> \o Rep("7", MAX_PHONE_LENGTH - 3)

LongEmail == Rep("u", MAX_EMAIL_LENGTH - 11) \o <<"@">> \o Rep("d", 5) \o <<".", "c", "o", "m">>

\* What the user types at the prompts (before get_input cuts and trims it).
RawNames == {al, <<" ", "B", "o", " ">>, <<"X">>}

RawPhones == {P2, <<"1", "2", "3">>}

RawEmails == {E2, <<"A", "@", "b">>}

RawConfirms == {<<"n">>, <<"Y", "e", "s">>, <<"o", "k">>}

RawChoices == {<<"1">>, <<"2">>, <<"3">>, <<"4">>}

\* The i-th contact of a generated address book: names Aa, Ab, ..., Az, Ba, ...
GenContact(i) ==
  Contact(<<Upper[(i \div 26) + 1], Lower[(i % 26) + 1]>>, IF i % 2 = 0 THEN P1 ELSE P2, E1)

\* The spec's malformed line, Bad;Line,no,proper,split
BadLine ==
  << "B", "a", "d", ";", "L", "i", "n", "e", ",", "n", "o", ",",
     "p", "r", "o", "p", "e", "r", ",", "s", "p", "l", "i", "t" >>

GenCsv(n) == [i \in 1..n |-> CsvLine(GenContact(i))]

\* The contacts.txt files a session may find at startup.
CsvFiles ==
  { NoFile,
    File(<<CsvLine(Contact(Bo, P1, E1)), BadLine, CsvLine(Contact(Al, P2, E2))>>),
    File(GenCsv(MAX_CONTACTS - 1)),
    File(GenCsv(MAX_CONTACTS + 1)) }

\* The Contacts1.vcf file of the session: a card with two TEL lines, a card
\* without EMAIL, and a complete card.
VcfSample ==
  File(<< BEGIN_VCARD, VERSION_3, FN \o Eve, TEL \o <<":", "1", "1", "1">>,
     TEL_CELL \o P2 \o <<"\r">>, EMAIL_WORK \o E1, END_VCARD,
     BEGIN_VCARD, FN \o Bo, TEL_CELL \o P1, END_VCARD,
     BEGIN_VCARD, FN \o Al, TEL_CELL \o P1, EMAIL_WORK \o E2, END_VCARD >>)

(***************************************************************************)
(* State                                                                   *)
(***************************************************************************)

VARIABLES
  contacts,  \* contacts[0 .. contact_count-1]
  pc,        \* where the process is: start, menu, the steps of save, exit, crashed, terminated
  idx,       \* the loop index i of save_contacts
  ferror,    \* error indicator of the temp file's stream: a write has failed
  disk,      \* the files: contacts.txt, contacts.tmp, contacts.vcf, Contacts1.vcf
  result,    \* what the last operation reported
  snap,      \* the store and contacts.txt when the last save or export began
  nops       \* menu commands executed

vars == <<contacts, pc, idx, ferror, disk, result, snap, nops>>

contact_count == Len(contacts)

Report(op, status, args, n) == [op |-> op, status |-> status, args |-> args, n |-> n]

Init ==
  /\ contacts = <<>>
  /\ pc = "start"
  /\ idx = 0
  /\ ferror = FALSE
  /\ \E f \in CsvFiles :
       disk = [csv |-> f, tmp |-> NoFile, vcf |-> NoFile, vcf_in |-> VcfSample]
  /\ result = Report("none", "none", <<>>, 0)
  /\ snap = [store |-> <<>>, csv |-> NoFile]
  /\ nops = 0

\* main: load_contacts() at startup, by either definition of the function.
Load ==
  /\ pc = "start"
  /\ \E size \in {LINE_BUF, LINE_BUF_OLD} :
       contacts' = load_contacts(disk.csv, size, contacts)
  /\ pc' = "menu"
  /\ result' = Report("load", IF ~disk.csv.exists THEN "no_file" ELSE "loaded",
                      <<>>, Len(contacts'))
  /\ UNCHANGED <<idx, ferror, disk, snap, nops>>

\* One more command of the menu loop.
Command ==
  /\ pc = "menu"
  /\ nops < MaxOps
  /\ nops' = nops + 1
  /\ UNCHANGED <<pc, idx, ferror, snap>>

\* add_contacts
Add ==
  /\ Command
  /\ IF contact_count >= MAX_CONTACTS
     THEN /\ result' = Report("add", "full", <<>>, 0)
          /\ UNCHANGED contacts
     ELSE \E rn \in RawNames, rp \in RawPhones, re \in RawEmails :
            LET name == get_input(rn, MAX_NAME_LENGTH)
                phone == get_input(rp, MAX_PHONE_LENGTH)
                email == get_input(re, MAX_EMAIL_LENGTH)
            IN /\ get_valid_input(name, "NAME_REGEX")
               /\ get_valid_input(phone, "PHONE_REGEX")
               /\ get_valid_input(email, "EMAIL_REGEX")
               /\ contacts' = Append(contacts, Contact(name, phone, email))
               /\ result' = Report("add", "added", <<name, phone, email>>, 0)
  /\ UNCHANGED disk

\* delete_contacts
Delete ==
  /\ Command
  /\ IF contact_count = 0
     THEN /\ result' = Report("delete", "empty", <<>>, 0)
          /\ UNCHANGED contacts
     ELSE \E rn \in RawNames, rc \in RawConfirms :
            LET name == get_input(rn, MAX_NAME_LENGTH)
                confirm == get_input(rc, 2)
                i == FirstMatch(contacts, name)
            IN /\ get_valid_input(name, "NAME_REGEX")
               /\ IF i = 0
                  THEN /\ result' = Report("delete", "not_found", <<name>>, 0)
                       /\ UNCHANGED contacts
                  ELSE /\ get_valid_input(confirm, "CONFIRM_REGEX")
                       /\ IF Confirmed(confirm)
                          THEN /\ contacts' = ShiftLeft(contacts, i)
                               /\ result' = Report("delete", "deleted", <<name, confirm>>, 0)
                          ELSE /\ UNCHANGED contacts
                               /\ result' = Report("delete", "cancelled", <<name, confirm>>, 0)
  /\ UNCHANGED disk

\* update_contact, from the contact found at slot i on: the prompts for the
\* new name, phone and email, each committed before the next prompt.
UpdateFound(i, name, new_name, new_phone, new_email) ==
  LET old == contacts[i]
      rename == new_name # <<>> /\ strcmp(new_name, old.name) # 0
      new == Contact(UpdateField(old.name, new_name),
                     UpdateField(old.phone, new_phone),
                     UpdateField(old.email, new_email))
  IN IF rename /\ NameTaken(contacts, i, new_name)
     THEN /\ result' = Report("update", "duplicate", <<name, new_name>>, 0)
          /\ UNCHANGED contacts
     ELSE /\ contacts' = [contacts EXCEPT ![i] = new]
          /\ result' = Report("update",
                              IF new # old THEN "updated" ELSE "no_changes",
                              <<name, new_name, new_phone, new_email>>, 0)

\* update_contact
Update ==
  /\ Command
  /\ IF contact_count = 0
     THEN /\ result' = Report("update", "empty", <<>>, 0)
          /\ UNCHANGED contacts
     ELSE \E rn \in RawNames :
            LET name == get_input(rn, MAX_NAME_LENGTH)
                i == FirstMatch(contacts, name)
            IN /\ get_valid_input(name, "NAME_REGEX")
               /\ IF i = 0
                  THEN /\ result' = Report("update", "not_found", <<name>>, 0)
                       /\ UNCHANGED contacts
                  ELSE \E r1 \in RawNames \cup {<<>>},
                          r2 \in RawPhones \cup {<<>>},
                          r3 \in RawEmails \cup {<<>>} :
                         LET new_name == get_input(r1, MAX_NAME_LENGTH)
                             new_phone == get_input(r2, MAX_PHONE_LENGTH)
                             new_email == get_input(r3, MAX_EMAIL_LENGTH)
                         IN /\ get_optional_valid_input(new_name, "NAME_REGEX")
                            /\ get_optional_valid_input(new_phone, "PHONE_REGEX")
                            /\ get_optional_valid_input(new_email, "EMAIL_REGEX")
                            /\ UpdateFound(i, name, new_name, new_phone, new_email)
  /\ UNCHANGED disk

\* sort_contacts. merge allocates its two copies with malloc; when either
\* allocation fails it calls exit(EXIT_FAILURE): the process ends within the
\* sort, its store is gone and save_contacts is never reached. merge is called
\* only for two contacts or more.
Sort ==
  /\ pc = "menu"
  /\ nops < MaxOps
  /\ nops' = nops + 1
  /\ IF contact_count = 0
     THEN /\ result' = Report("sort", "empty", <<>>, 0)
          /\ UNCHANGED <<contacts, pc>>
     ELSE \E rc \in RawChoices :
            LET choice == get_input(rc, 3)
            IN /\ get_valid_input(choice, "SORT_CHOICE_REGEX")
               /\ \/ /\ contacts' = merge_sort(contacts, 0, contact_count - 1, SortField(choice))
                     /\ result' = Report("sort", "sorted", <<choice>>, 0)
                     /\ UNCHANGED pc
                  \/ /\ contact_count >= 2
                     /\ pc' = "terminated"
                     /\ contacts' = <<>>
                     /\ result' = Report("sort", "no_memory", <<choice>>, 0)
  /\ UNCHANGED <<idx, ferror, snap, disk>>

\* import_from_vcf("Contacts1.vcf")
Import ==
  /\ Command
  /\ contacts' = import_from_vcf(disk.vcf_in, contacts)
  /\ result' = Report("import", IF ~disk.vcf_in.exists THEN "open_failed" ELSE "imported",
                      <<>>, Len(contacts') - contact_count)
  /\ UNCHANGED disk

\* Choice 9: the menu loop ends and save_contacts begins.
Exit ==
  /\ pc = "menu"
  /\ pc' = "save_open"
  /\ snap' = [store |-> contacts, csv |-> disk.csv]
  /\ result' = Report("exit", "goodbye", <<>>, 0)
  /\ UNCHANGED <<contacts, idx, ferror, disk, nops>>

Next ==
  \/ Load
  \/ Add
  \/ Delete
  \/ Update
  \/ Sort
  \/ Import
  \/ Exit

\* A session: startup, the menu commands, up to the start of the final save.
Spec == Init /\ [][Next]_vars

(***************************************************************************)
(* save_contacts, step by step, and the next start of the program          *)
(***************************************************************************)

\* The contacts the persistence specifications build their stores from.
TestContacts ==
  { Contact(Al, P1, E1),
    Contact(Bo, P2, E2),
    Contact(Eve, P2, E1),
    Contact(LongName, LongPhone, LongEmail) }

RECURSIVE StoresOf(_)
StoresOf(n) ==
  IF n = 0 THEN {<<>>}
  ELSE LET shorter == StoresOf(n - 1)
       IN shorter \cup {Append(st, c) : st \in shorter, c \in TestContacts}

\* The stores of at most MaxStore contacts.
TestStores == StoresOf(MaxStore)

\* The contacts.txt an earlier session left.
OldCsv == File(<<CsvLine(Contact(Bo, P1, E1))>>)

\* The lines save_contacts writes for a store.
Encode(store) == [i \in 1..Len(store) |-> CsvLine(sanitize_contact(store[i]))]

SaveInit ==
  /\ contacts \in TestStores
  /\ pc = "save_open"
  /\ idx = 0
  /\ ferror = FALSE
  /\ \E old \in {NoFile, OldCsv} :
       /\ disk = [csv |-> old, tmp |-> NoFile, vcf |-> NoFile, vcf_in |-> NoFile]
       /\ snap = [store |-> contacts, csv |-> old]
  /\ result = Report("exit", "goodbye", <<>>, 0)
  /\ nops = 0

\* fopen("contacts.tmp", "w"): the file is created or truncated, or the call
\* fails and save_contacts returns.
SaveOpen ==
  /\ pc = "save_open"
  /\ \/ /\ disk' = [disk EXCEPT !.tmp = File(<<>>)]
        /\ pc' = "save_write"
        /\ UNCHANGED result
     \/ /\ pc' = "exit"
        /\ result' = Report("save", "open_failed", <<>>, 0)
        /\ UNCHANGED disk
  /\ idx' = 0
  /\ UNCHANGED <<contacts, ferror, snap, nops>>

\* One iteration of the write loop: sanitize_contact(&contacts[i]) and
\* fprintf, whose result is not looked at; a failed write leaves nothing of
\* the line in the file and sets the stream's error indicator.
SaveWrite ==
  /\ pc = "save_write"
  /\ idx < contact_count
  /\ LET c == sanitize_contact(contacts[idx + 1])
     IN /\ contacts' = [contacts EXCEPT ![idx + 1] = c]
        /\ \/ /\ disk' = [disk EXCEPT !.tmp = File(Append(disk.tmp.lines, CsvLine(c)))]
              /\ UNCHANGED ferror
           \/ /\ ferror' = TRUE
              /\ UNCHANGED disk
  /\ idx' = idx + 1
  /\ UNCHANGED <<pc, result, snap, nops>>

\* The end of the loop and fclose(file).
SaveClose ==
  /\ pc = "save_write"
  /\ idx >= contact_count
  /\ pc' = "save_remove"
  /\ UNCHANGED <<contacts, idx, ferror, disk, result, snap, nops>>

\* remove("contacts.txt"), its result ignored.
SaveRemove ==
  /\ pc = "save_remove"
  /\ disk' = [disk EXCEPT !.csv = NoFile]
  /\ pc' = "save_rename"
  /\ UNCHANGED <<contacts, idx, ferror, result, snap, nops>>

\* rename("contacts.tmp", "contacts.txt"), which may fail.
SaveRename ==
  /\ pc = "save_rename"
  /\ \/ /\ disk' = [disk EXCEPT !.csv = disk.tmp, !.tmp = NoFile]
        /\ result' = Report("save", "saved", <<>>, 0)
     \/ /\ result' = Report("save", "rename_failed", <<>>, 0)
        /\ UNCHANGED disk
  /\ pc' = "exit"
  /\ UNCHANGED <<contacts, idx, ferror, snap, nops>>

\* The process is terminated at a step of save_contacts.
Crash ==
  /\ pc \in {"save_open", "save_write", "save_remove", "save_rename"}
  /\ pc' = "crashed"
  /\ UNCHANGED <<contacts, idx, ferror, disk, result, snap, nops>>

\* The program is started again: main calls load_contacts on an empty store.
Restart ==
  /\ pc \in {"exit", "crashed"}
  /\ \E size \in {LINE_BUF, LINE_BUF_OLD} :
       contacts' = load_contacts(disk.csv, size, <<>>)
  /\ pc' = "menu"
  /\ idx' = 0
  /\ ferror' = FALSE
  /\ nops' = 0
  /\ result' = Report("load", IF ~disk.csv.exists THEN "no_file" ELSE "loaded",
                      <<>>, Len(contacts'))
  /\ UNCHANGED <<disk, snap>>

SaveNext ==
  \/ SaveOpen
  \/ SaveWrite
  \/ SaveClose
  \/ SaveRemove
  \/ SaveRename
  \/ Crash
  \/ Restart

\* The end of a session: save_contacts from a store of valid contacts, a
\* possible termination on the way, and the next start of the program.
SaveSpec == SaveInit /\ [][SaveNext]_vars

(***************************************************************************)
(* vCard export and import                                                 *)
(***************************************************************************)

VcfInit ==
  /\ contacts \in TestStores
  /\ pc = "menu"
  /\ idx = 0
  /\ ferror = FALSE
  /\ disk = [csv |-> NoFile, tmp |-> NoFile, vcf |-> NoFile, vcf_in |-> NoFile]
  /\ snap = [store |-> <<>>, csv |-> NoFile]
  /\ result = Report("load", "no_file", <<>>, 0)
  /\ nops = 0

\* export_to_vcf("contacts.vcf")
Export ==
  /\ pc = "menu"
  /\ nops < MaxOps
  /\ nops' = nops + 1
  /\ disk' = [disk EXCEPT !.vcf = File(export_to_vcf(contacts))]
  /\ result' = Report("export", "exported", <<>>, contact_count)
  /\ snap' = [store |-> contacts, csv |-> disk.csv]
  /\ UNCHANGED <<contacts, pc, idx, ferror>>

\* The exported file is carried to another installation as Contacts1.vcf,
\* where the program starts without a contacts.txt: the store is empty.
Carry ==
  /\ pc = "menu"
  /\ disk.vcf.exists
  /\ ~disk.vcf_in.exists
  /\ disk' = [csv |-> NoFile, tmp |-> NoFile, vcf |-> NoFile, vcf_in |-> disk.vcf]
  /\ contacts' = load_contacts(NoFile, LINE_BUF, <<>>)
  /\ result' = Report("load", "no_file", <<>>, 0)
  /\ nops' = 0
  /\ UNCHANGED <<pc, idx, ferror, snap>>

\* Export, the carrying of the file, and Import as in a session.
VcfNext ==
  \/ Export
  \/ Carry
  \/ Import

VcfSpec == VcfInit /\ [][VcfNext]_vars

(***************************************************************************)
(* search_contact                                                          *)
(***************************************************************************)

\* SearchMatch on the names as they are, without tolower.
SearchMatch_NoFold(c, name, search_type) ==
  IF search_type = 1 THEN strcmp(c.name, name) = 0 ELSE strstr(c.name, name)

\* The test of one contact in the loop of search_contact: both names are
\* lowercased, then compared (type 1) or searched with strstr (type 2).
SearchMatch(c, name, search_type) ==
  LET temp_search == ToLower(name)
      temp_name == ToLower(c.name)
  IN IF search_type = 1
     THEN strcasecmp(temp_name, temp_search) = 0
     ELSE strstr(temp_name, temp_search)

\* The rows search_contact prints, one per matching contact, in the order of
\* the loop over contacts[0 .. contact_count-1].
SearchRows(store, name, search_type) ==
  For(LAMBDA rows, i : IF SearchMatch(store[i], name, search_type)
                       THEN Append(rows, store[i]) ELSE rows,
      1, Len(store), <<>>)

\* The stores searched: up to MaxStore contacts, two of them with names that
\* differ only in case.
SearchStores ==
  LET cs == TestContacts \cup {Contact(al, P2, E2)}
      RECURSIVE Upto(_)
      Upto(n) == IF n = 0 THEN {<<>>}
                 ELSE Upto(n - 1) \cup {Append(st, c) : st \in Upto(n - 1), c \in cs}
  IN Upto(MaxStore)

\* What the user types as the search type and as the name to search.
RawTypes == {<<"1">>, <<"2">>, <<"3">>}

RawQueries ==
  {al, <<"V", "E">>, <<" ", "b", "o">>, <<"a", "a">>, <<"z", "z">>, <<"l">>}

SearchInit ==
  /\ contacts \in SearchStores
  /\ pc = "menu"
  /\ idx = 0
  /\ ferror = FALSE
  /\ disk = [csv |-> NoFile, tmp |-> NoFile, vcf |-> NoFile, vcf_in |-> NoFile]
  /\ snap = [store |-> <<>>, csv |-> NoFile]
  /\ result = Report("load", "no_file", <<>>, 0)
  /\ nops = 0

\* search_contact: the report holds the type, the name and the rows printed,
\* and the number of them.
Search ==
  /\ pc = "menu"
  /\ nops < MaxOps
  /\ nops' = nops + 1
  /\ IF contact_count = 0
     THEN result' = Report("search", "empty", <<>>, 0)
     ELSE \E rt \in RawTypes, rn \in RawQueries :
            LET choice_str == get_input(rt, 2)
                name == get_input(rn, MAX_NAME_LENGTH)
                search_type == IF choice_str = <<"1">> THEN 1 ELSE 2
                rows == SearchRows(contacts, name, search_type)
            IN /\ get_valid_input(choice_str, "SEARCH_TYPE_REGEX")
               /\ get_valid_input(name, "NAME_REGEX")
               /\ result' = Report("search",
                                   IF Len(rows) = 0 THEN "not_found" ELSE "found",
                                   <<search_type, name, rows>>, Len(rows))
  /\ UNCHANGED <<contacts, pc, idx, ferror, disk, snap>>

SearchNext == Search

\* Searches of a store, one after the other.
SearchSpec == SearchInit /\ [][SearchNext]_vars

(***************************************************************************)
(* load_contacts on its own                                                *)
(***************************************************************************)

\* An email of 260 characters that the pattern accepts, and whose first 253
\* characters are LongEmail.
OverlongEmail == LongEmail \o Rep("m", 7)

\* Lines of a contacts.txt: records as save_contacts writes them, the longest
\* of them, records written by hand with other spacing or without a blank,
\* a record with an email longer than the buffer of a Contact, a record with a
\* phone the pattern rejects, and lines that do not split.
LoadLines ==
  { CsvLine(Contact(Al, P1, E1)),
    CsvLine(Contact(Bo, P2, E2)),
    CsvLine(Contact(LongName, LongPhone, LongEmail)),
    <<" ">> \o Eve \o <<" ", ",", " ", " ">> \o P1 \o <<" ", ",", " ">> \o E1 \o <<" ">>,
    Eve \o <<",">> \o P2 \o <<",">> \o E2,
    CsvLine(Contact(Al, P2, OverlongEmail)),
    CsvLine(Contact(Eve, <<"1", "2", "3">>, E1)),
    BadLine,
    <<"N", "o", "C", "o", "m", "m", "a">> }

RECURSIVE LinesUpTo(_)
LinesUpTo(n) ==
  IF n = 0 THEN {<<>>}
  ELSE LET shorter == LinesUpTo(n - 1)
       IN shorter \cup {Append(ls, l) : ls \in shorter, l \in LoadLines}

\* The files loaded: none, every file of at most MaxStore of the lines, and
\* a file of a bad line followed by 101 records.
LoadFiles ==
  {NoFile, File(<<BadLine>> \o GenCsv(MAX_CONTACTS + 1))}
    \cup {File(ls) : ls \in LinesUpTo(MaxStore)}

LoadInit ==
  /\ contacts = <<>>
  /\ pc = "start"
  /\ idx = 0
  /\ ferror = FALSE
  /\ \E f \in LoadFiles :
       disk = [csv |-> f, tmp |-> NoFile, vcf |-> NoFile, vcf_in |-> NoFile]
  /\ result = Report("none", "none", <<>>, 0)
  /\ snap = [store |-> <<>>, csv |-> NoFile]
  /\ nops = 0

LoadNext == Load

\* The start of the program on each of the files.
LoadSpec == LoadInit /\ [][LoadNext]_vars

(***************************************************************************)
(* import_from_vcf on its own                                              *)
(***************************************************************************)

\* A phone of 18 characters whose first 16 the pattern accepts.
OverlongPhone == P2 \o Rep("9", 6)

\* Cards of a Contacts1.vcf: a card with two TEL lines and a carriage return,
\* a card without EMAIL, a card with only a TEL line, a complete card, a card
\* with blanks around its values, a card with values of the greatest lengths,
\* and a card with a TEL value longer than char phone[MAX_PHONE_LENGTH].
VcfCards ==
  { << BEGIN_VCARD, VERSION_3, FN \o Eve, TEL \o <<":", "1", "1", "1">>,
       TEL_CELL \o P2 \o <<"\r">>, EMAIL_WORK \o E1, END_VCARD >>,
    << BEGIN_VCARD, FN \o Bo, TEL_CELL \o P1, END_VCARD >>,
    << BEGIN_VCARD, TEL_CELL \o P1, END_VCARD >>,
    << BEGIN_VCARD, VERSION_3, FN \o Al, TEL_CELL \o P1, EMAIL_WORK \o E2, END_VCARD >>,
    << BEGIN_VCARD, FN \o <<" ">> \o al \o <<" ">>, TEL_CELL \o <<" ">> \o P2,
       EMAIL_WORK \o E1 \o <<" ", "\r">>, END_VCARD >>,
    VCard(Contact(LongName, LongPhone, LongEmail)),
    << BEGIN_VCARD, VERSION_3, FN \o Bo, TEL_CELL \o OverlongPhone,
       EMAIL_WORK \o E2, END_VCARD >> }

RECURSIVE CardsUpTo(_)
CardsUpTo(n) ==
  IF n = 0 THEN {<<>>}
  ELSE LET shorter == CardsUpTo(n - 1)
       IN shorter \cup {ls \o card : ls \in shorter, card \in VcfCards}

\* The files imported: none, and every file of at most MaxStore of the cards.
VcfFiles == {NoFile} \cup {File(ls) : ls \in CardsUpTo(MaxStore)}

\* The stores a file is imported into: empty, one contact, one contact less
\* than MAX_CONTACTS, and MAX_CONTACTS contacts.
ImportStores ==
  { <<>>,
    <<Contact(Eve, P1, E2)>>,
    [i \in 1..(MAX_CONTACTS - 1) |-> GenContact(i)],
    [i \in 1..MAX_CONTACTS |-> GenContact(i)] }

ImportInit ==
  /\ contacts \in ImportStores
  /\ pc = "menu"
  /\ idx = 0
  /\ ferror = FALSE
  /\ \E f \in VcfFiles :
       disk = [csv |-> NoFile, tmp |-> NoFile, vcf |-> NoFile, vcf_in |-> f]
  /\ result = Report("load", "loaded", <<>>, Len(contacts))
  /\ snap = [store |-> <<>>, csv |-> NoFile]
  /\ nops = 0

ImportNext == Import

\* Imports of a file into a store, one after the other.
ImportSpec == ImportInit /\ [][ImportNext]_vars

(***************************************************************************)
(* The field validator on its own                                          *)
(***************************************************************************)

\* The longest of the short strings offered to the validator.
MaxLen == 3

\* The characters the short strings are made of: letters of both cases, the
\* three other characters of a name, a digit.
NameAlphabet == {"A", "b", " ", "-", "'", "1"}

RECURSIVE StringsOf(_, _)
StringsOf(alphabet, n) ==
  IF n = 0 THEN {<<>>}
  ELSE LET shorter == StringsOf(alphabet, n - 1)
       IN shorter \cup {Append(s, c) : s \in shorter, c \in alphabet}

\* A string of n letters.
LettersOf(n) == <<"M">> \o Rep("a", n - 2) \o <<"x">>

\* The strings offered as names: every string of at most MaxLen characters
\* of the alphabet, and strings of letters around the lengths of the buffer.
NameInputs ==
  StringsOf(NameAlphabet, MaxLen)
    \cup {LettersOf(n) : n \in (MAX_NAME_LENGTH - 2)..(MAX_NAME_LENGTH + 1)}
    \cup {<<"M">> \o Rep(" ", MAX_NAME_LENGTH - 3) \o <<"x">>,
          Rep("a", MAX_NAME_LENGTH - 2) \o <<"-">>}

ValidateInit ==
  /\ contacts = <<>>
  /\ pc = "validate"
  /\ idx = 0
  /\ ferror = FALSE
  /\ disk = [csv |-> NoFile, tmp |-> NoFile, vcf |-> NoFile, vcf_in |-> NoFile]
  /\ snap = [store |-> <<>>, csv |-> NoFile]
  /\ nops = 0
  /\ \E s \in NameInputs : result = Report("input", "none", <<s>>, 0)

\* validate_with_regex(NAME_REGEX, input)
Validate ==
  /\ pc = "validate"
  /\ result.op = "input"
  /\ result' = Report("validate",
                      IF validate_with_regex("NAME_REGEX", result.args[1])
                      THEN "accepted" ELSE "rejected",
                      result.args, 0)
  /\ UNCHANGED <<contacts, pc, idx, ferror, disk, snap, nops>>

ValidateNext == Validate

\* The validator applied to each of the strings.
ValidateSpec == ValidateInit /\ [][ValidateNext]_vars

(***************************************************************************)
(* Properties of a session                                                 *)
(***************************************************************************)

\* Two names are equal under case-insensitive comparison.
SameName(a, b) == ToLower(a) = ToLower(b)

\* Slot i holds the first contact of the store named `name`.
IsFirstNamed(store, i, name) ==
  /\ i \in 1..Len(store)
  /\ SameName(store[i].name, name)
  /\ \A j \in 1..(i - 1) : ~SameName(store[j].name, name)

NoneNamed(store, name) == \A j \in 1..Len(store) : ~SameName(store[j].name, name)

\* No two contacts of the store have the same name: the lowercased names are
\* as many as the contacts.
NamesUnique(store) ==
  Cardinality({ToLower(store[i].name) : i \in 1..Len(store)}) = Len(store)

\* C1: the store never holds more than MAX_CONTACTS (100) contacts, and add on
\* a store that holds 100 contacts is refused and leaves the store as it was.
CapacityKept ==
  /\ [](contact_count >= 0 /\ contact_count <= MAX_CONTACTS)
  /\ [][(result'.op = "add" /\ contact_count >= MAX_CONTACTS)
          => (result'.status = "full" /\ contacts' = contacts)]_vars

\* C1 witness: add was refused on a store of 100 contacts.
FullStoreRefusedAdd ==
  /\ result.op = "add"
  /\ result.status = "full"
  /\ contact_count = MAX_CONTACTS

\* C2 as stated: in every reachable state no two stored contacts have names
\* that are equal under case-insensitive comparison.
NamesAlwaysUnique == NamesUnique(contacts)

\* C2 amended: update, delete and sort never introduce a case-insensitive
\* duplicate name: on a store whose names are unique they leave them unique.
UniquenessKeptByUpdateDeleteSort ==
  [][(result'.op \in {"update", "delete", "sort"} /\ NamesUnique(contacts))
       => NamesUnique(contacts')]_vars

\* C2 witness: a rename was committed on a store whose names stayed unique.
RenamedKeepingNamesUnique ==
  /\ result.op = "update"
  /\ result.status = "updated"
  /\ result.args[2] # <<>>
  /\ contact_count >= 2
  /\ NamesUnique(contacts)

\* C3: every stored contact has a non-empty name, phone and email without a
\* comma, each accepted by its grammar.
StoredFieldsValid ==
  \A i \in 1..contact_count :
    /\ ValidContact(contacts[i])
    /\ \A f \in {contacts[i].name, contacts[i].phone, contacts[i].email} :
         f # <<>> /\ \A k \in 1..Len(f) : f[k] # ","

\* C3 witness: a store filled by load, add and import, after an update.
ValidAfterLoadAddImportUpdate ==
  /\ nops = MaxOps
  /\ result.op = "update"
  /\ result.status = "updated"
  /\ \E i \in 1..contact_count : contacts[i].name = Eve
  /\ contact_count >= 3

\* The store without its slot i, the other contacts in their order.
Without(store, i) == SubSeq(store, 1, i - 1) \o SubSeq(store, i + 1, Len(store))

\* C8: a confirmed delete of a name that is found removes exactly the first
\* contact so named (case-insensitively): the store is one shorter and the
\* other contacts keep their values and their order.
DeleteRemovesFirstMatch ==
  [][(/\ result'.op = "delete"
      /\ Len(result'.args) = 2
      /\ result'.args[2][1] \in {"y", "Y"}
      /\ ~NoneNamed(contacts, result'.args[1]))
       => /\ Len(contacts') = contact_count - 1
          /\ \E i \in 1..contact_count :
               /\ IsFirstNamed(contacts, i, result'.args[1])
               /\ contacts' = Without(contacts, i)]_vars

\* C8 witness: a contact that was neither first nor last was deleted by a name
\* typed in another case, from a store that held that name twice.
DeletedFromTheMiddle ==
  /\ result.op = "delete"
  /\ result.status = "deleted"
  /\ result.args[1] = al
  /\ contact_count >= 2
  /\ contacts[1].name # Al
  /\ \E i \in 2..contact_count : SameName(contacts[i].name, al)

\* C9: a delete that finds no contact of the given name, or whose
\* confirmation is declined, leaves the store as it was.
DeleteWithoutEffect ==
  [][(/\ result'.op = "delete"
      /\ \/ contact_count = 0
         \/ NoneNamed(contacts, result'.args[1])
         \/ Len(result'.args) = 2 /\ result'.args[2][1] \in {"n", "N"})
       => contacts' = contacts]_vars

\* C9 witness: the contact was found and the delete declined.
DeleteDeclined ==
  /\ result.op = "delete"
  /\ result.status = "cancelled"
  /\ result.args[2] = <<"n">>
  /\ ~NoneNamed(contacts, result.args[1])

\* A rename to new_name of slot i that another contact's name forbids.
Collides(store, i, new_name) ==
  /\ new_name # <<>>
  /\ new_name # store[i].name
  /\ \E j \in 1..Len(store) : j # i /\ SameName(store[j].name, new_name)

\* The field of an updated contact: kept for an empty value, replaced by a
\* value that differs from it.
FieldUpdated(old, new, supplied) ==
  /\ supplied = <<>> => new = old
  /\ (supplied # <<>> /\ supplied # old) => new = supplied

\* C10: an update of the first contact of the given name (whose new name no
\* other contact holds) keeps each field for which an empty value is given and
\* replaces each field by a different non-empty value; it reports a change
\* exactly when a field differs afterwards; the contact keeps its slot and
\* the other contacts are unchanged.
UpdateChangesGivenFields ==
  [][\A i \in 1..contact_count :
       (/\ result'.op = "update"
        /\ IsFirstNamed(contacts, i, result'.args[1])
        /\ ~Collides(contacts, i, result'.args[2]))
         => /\ Len(result'.args) = 4
            /\ Len(contacts') = contact_count
            /\ \A j \in 1..contact_count : j # i => contacts'[j] = contacts[j]
            /\ FieldUpdated(contacts[i].name, contacts'[i].name, result'.args[2])
            /\ FieldUpdated(contacts[i].phone, contacts'[i].phone, result'.args[3])
            /\ FieldUpdated(contacts[i].email, contacts'[i].email, result'.args[4])
            /\ (result'.status = "updated") = (contacts'[i] # contacts[i])
            /\ result'.status \in {"updated", "no_changes"}]_vars

\* C10 witness: only a new phone was given; the phone changed, the name and
\* the email did not, and a change was reported.
OnlyPhoneUpdated ==
  /\ result.op = "update"
  /\ result.status = "updated"
  /\ result.args[2] = <<>>
  /\ result.args[3] = P2
  /\ result.args[4] = <<>>
  /\ \E i \in 1..contact_count :
       /\ IsFirstNamed(contacts, i, result.args[1])
       /\ contacts[i].phone = P2
       /\ contacts[i].email = E1

(***************************************************************************)
(* Properties of persistence                                               *)
(***************************************************************************)

\* C4 as stated: whenever the process is terminated during save, contacts.txt
\* holds the complete contents it had before the save or the complete new
\* contents (it is absent only if it was absent before).
CrashLeavesOldOrNewFile ==
  pc = "crashed" =>
    \/ disk.csv = snap.csv
    \/ disk.csv = File(Encode(snap.store))

\* The save failed: the temp file could not be opened, a write to it failed,
\* or the rename failed.
SaveFailed ==
  /\ pc = "exit"
  /\ result.op = "save"
  /\ result.status \in {"open_failed", "rename_failed"} \/ ferror

\* C5 as stated: after a failed save, contacts.txt is the file it was before.
FailedSaveKeepsOldFile == SaveFailed => disk.csv = snap.csv

\* C6 as stated: a store saved without failure and then loaded by the next
\* start of the program is the same sequence of contacts.
CsvRoundTrip ==
  [][(/\ pc = "exit"
      /\ result.status = "saved"
      /\ ~ferror
      /\ pc' = "menu")
       => contacts' = snap.store]_vars

\* C7: a store exported to vCard and imported from that file into an empty
\* store is the same sequence of contacts.
VcfRoundTrip ==
  [][(/\ result'.op = "import"
      /\ contacts = <<>>
      /\ disk.vcf_in = File(export_to_vcf(snap.store)))
       => contacts' = snap.store]_vars

\* C7 witness: two contacts, one of them with fields of the greatest length,
\* came back from the exported file.
VcfCameBack ==
  /\ result.op = "import"
  /\ result.n = 2
  /\ contacts = snap.store
  /\ contacts[2].email = LongEmail
  /\ disk.vcf_in = File(export_to_vcf(contacts))

(***************************************************************************)
(* Properties of update, sort and search                                   *)
(***************************************************************************)

\* Another contact than slot i has the name new_name, case-insensitively.
HeldByAnother(store, i, new_name) ==
  \E j \in 1..Len(store) : j # i /\ SameName(store[j].name, new_name)

\* C11 as stated: an update whose new name equals, case-insensitively, the
\* name of a different stored contact is rejected as a duplicate and leaves
\* the store unchanged.
UpdateRejectsNameOfAnother ==
  [][\A i \in 1..contact_count :
       (/\ result'.op = "update"
        /\ Len(result'.args) >= 2
        /\ IsFirstNamed(contacts, i, result'.args[1])
        /\ result'.args[2] # <<>>
        /\ HeldByAnother(contacts, i, result'.args[2]))
         => (result'.status = "duplicate" /\ contacts' = contacts)]_vars

\* C11 amended: an update whose new name differs from the current name of the
\* contact and equals, case-insensitively, the name of a different stored
\* contact is rejected as a duplicate and leaves the store unchanged: no
\* name, phone or email is committed.
RenameToNameOfAnotherRejected ==
  [][\A i \in 1..contact_count :
       (/\ result'.op = "update"
        /\ Len(result'.args) >= 2
        /\ IsFirstNamed(contacts, i, result'.args[1])
        /\ Collides(contacts, i, result'.args[2]))
         => (result'.status = "duplicate" /\ contacts' = contacts)]_vars

\* C11 witness: a rename was rejected for the name, in another case, of a
\* different contact.
RenameRejected ==
  /\ result.op = "update"
  /\ result.status = "duplicate"
  /\ \E i, j \in 1..contact_count :
       /\ i # j
       /\ IsFirstNamed(contacts, i, result.args[1])
       /\ SameName(contacts[j].name, result.args[2])
       /\ contacts[j].name # result.args[2]

\* The comparator of a sort field: case-insensitive for name and email, exact
\* for phone; -1, 0 or 1.
KeyOrder(a, b, field) ==
  IF field = SORT_BY_NAME THEN strcmp(ToLower(a.name), ToLower(b.name))
  ELSE IF field = SORT_BY_PHONE THEN strcmp(a.phone, b.phone)
  ELSE strcmp(ToLower(a.email), ToLower(b.email))

\* The key of a contact: two contacts compare equal under the comparator of
\* the field exactly when their keys are the same string.
KeyOf(c, field) ==
  IF field = SORT_BY_NAME THEN ToLower(c.name)
  ELSE IF field = SORT_BY_PHONE THEN c.phone
  ELSE ToLower(c.email)

\* The contacts of the store with the given key, in store order.
WithKey(store, key, field) ==
  SelectSeq(store, LAMBDA d : KeyOf(d, field) = key)

\* Every adjacent pair of the store is in non-decreasing order of the field.
SortedBy(store, field) ==
  \A k \in 1..(Len(store) - 1) : KeyOrder(store[k], store[k + 1], field) <= 0

\* The field a completed sort reports.
FieldOf(r) ==
  IF r.args[1] = <<"1">> THEN SORT_BY_NAME
  ELSE IF r.args[1] = <<"2">> THEN SORT_BY_PHONE
  ELSE SORT_BY_EMAIL

\* C12: sort is stable: the contacts of equal key are in the same order
\* after the sort as before it, and a store already sorted by the field is
\* left as it is.
SortIsStable ==
  [][(result'.op = "sort" /\ result'.status = "sorted")
       => /\ \A key \in {KeyOf(contacts[k], FieldOf(result')) : k \in 1..contact_count} :
               WithKey(contacts', key, FieldOf(result'))
                 = WithKey(contacts, key, FieldOf(result'))
          /\ SortedBy(contacts, FieldOf(result')) => contacts' = contacts]_vars

\* C12 witness: a sort by phone of an address book whose contacts share two
\* phones: those of the first phone follow each other in their former order.
SortedByPhoneInFormerOrder ==
  /\ result.op = "sort"
  /\ result.status = "sorted"
  /\ result.args[1] = <<"2">>
  /\ contact_count >= MAX_CONTACTS - 1
  /\ contacts[1] = GenContact(1)
  /\ contacts[2] = GenContact(3)
  /\ contacts[3] = GenContact(5)

\* The reports of an operation that failed.
FailureStatuses ==
  {"full", "not_found", "duplicate", "open_failed", "rename_failed", "no_memory"}

\* C13 as stated: an operation that fails leaves the process running, at the
\* menu, and the store as it was before the operation.
FailureKeepsProcessAndStore ==
  [][(pc = "menu" /\ result'.status \in FailureStatuses)
       => (pc' = "menu" /\ contacts' = contacts)]_vars

\* The Name grammar as the claim words it: 1 to 49 characters, each a letter,
\* a space, a hyphen or an apostrophe, the first and the last a letter.
NameAsStated(s) ==
  /\ Len(s) >= 1
  /\ Len(s) <= MAX_NAME_LENGTH - 1
  /\ \A k \in 1..Len(s) : s[k] \in Letter \cup {" ", "-", "'"}
  /\ s[1] \in Letter
  /\ s[Len(s)] \in Letter

\* C14 as stated: the Name validator accepts exactly the strings of the
\* Name grammar, a single letter among them.
NameValidatorAcceptsGrammar ==
  result.op = "validate"
    => ((result.status = "accepted") <=> NameAsStated(result.args[1]))

\* needle occurs in hay at some offset.
OccursIn(needle, hay) ==
  \E off \in 0..(Len(hay) - Len(needle)) :
    \A k \in 1..Len(needle) : hay[off + k] = needle[k]

\* A contact matches a search as the claim words it.
MatchesAsStated(c, name, search_type) ==
  IF search_type = 1
  THEN ToLower(c.name) = ToLower(name)
  ELSE OccursIn(ToLower(name), ToLower(c.name))

\* C15: a search reports exactly the contacts that match, in store order
\* (none when nothing matches), and leaves the store as it was.
SearchReportsMatches ==
  [][(result'.op = "search")
       => /\ contacts' = contacts
          /\ pc' = "menu"
          /\ Len(result'.args) = 3 =>
               /\ result'.args[3]
                    = SelectSeq(contacts, LAMBDA c :
                        MatchesAsStated(c, result'.args[2], result'.args[1]))
               /\ result'.n = Len(result'.args[3])
          /\ Len(result'.args) = 0 => contacts = <<>>]_vars

\* C15 witness: a partial search for "VE" found the second contact of the
\* store, Eve, and not the first.
PartialSearchFoundSecond ==
  /\ result.op = "search"
  /\ result.status = "found"
  /\ result.args[1] = 2
  /\ result.args[2] = <<"V", "E">>
  /\ result.n = 1
  /\ contact_count = 2
  /\ contacts[2].name = Eve
  /\ result.args[3] = <<contacts[2]>>

\* How many slots of the store hold the contact c.
CountOf(store, c) == Cardinality({k \in 1..Len(store) : store[k] = c})

\* The two stores hold the same contacts, each as many times.
SameContacts(s, t) ==
  /\ Len(s) = Len(t)
  /\ \A k \in 1..Len(s) : CountOf(s, s[k]) = CountOf(t, s[k])

\* C16: a completed sort leaves the same contacts in the store, each as often
\* as before, every adjacent pair in non-decreasing order of the field; a
\* sort of the empty store changes nothing.
SortOrdersSameContacts ==
  [][(result'.op = "sort" /\ result'.status # "no_memory")
       => /\ SameContacts(contacts, contacts')
          /\ contact_count = 0 <=> result'.status = "empty"
          /\ result'.status = "sorted" => SortedBy(contacts', FieldOf(result'))]_vars

\* C16 witness: a sort by name put "al", added last, between "Al" and "Bo".
SortedByNameAcrossCase ==
  /\ result.op = "sort"
  /\ result.status = "sorted"
  /\ result.args[1] = <<"1">>
  /\ contact_count = 3
  /\ contacts[1].name = Al
  /\ contacts[2].name = al
  /\ contacts[3].name = Bo

(***************************************************************************)
(* Properties of the CSV load and the vCard import                         *)
(***************************************************************************)

\* The text of s after its first comma.
AfterComma(s) == Drop(s, IndexOf(s, ","))

\* The text of s before its first comma.
BeforeComma(s) == Take(s, IndexOf(s, ",") - 1)

\* A line splits into three fields when it holds two commas: the name before
\* the first, the phone between the two, the email after the second.
SplitsInThree(line) ==
  IndexOf(line, ",") # 0 /\ IndexOf(AfterComma(line), ",") # 0

\* The sanitized record of a line that splits.
RecordOf(line) ==
  sanitize_contact(Contact(BeforeComma(line),
                           BeforeComma(AfterComma(line)),
                           AfterComma(AfterComma(line))))

\* The records of the lines that split and pass the three grammars, in the
\* order of the lines.
RecordsOf(lines) ==
  For(LAMBDA recs, k :
        IF SplitsInThree(lines[k]) /\ ValidContact(RecordOf(lines[k]))
        THEN Append(recs, RecordOf(lines[k])) ELSE recs,
      1, Len(lines), <<>>)

\* C17 as stated: the store after the CSV load holds the records of the file
\* that split into three fields and pass the three grammars, in file order,
\* the first 100 of them.
LoadYieldsValidRecords ==
  [][(result'.op = "load" /\ disk.csv.exists)
       => /\ contacts' = Take(RecordsOf(disk.csv.lines), MAX_CONTACTS)
          /\ result'.n = Len(contacts')]_vars

\* A line of a vCard file without its line end.
TextOf(l) ==
  IF \E k \in 1..Len(l) : l[k] \in {"\r", "\n"}
  THEN SubSeq(l, 1, (CHOOSE k \in 1..Len(l) :
                       l[k] \in {"\r", "\n"} /\ \A j \in 1..(k - 1) : l[j] \notin {"\r", "\n"}) - 1)
  ELSE l

IsEnd(l) == HasPrefix(l, END_VCARD)

\* The index of the last END:VCARD line before line e, 0 when there is none.
PrevEnd(ls, e) ==
  IF \E k \in 1..(e - 1) : IsEnd(ls[k])
  THEN CHOOSE k \in 1..(e - 1) : IsEnd(ls[k]) /\ \A j \in (k + 1)..(e - 1) : ~IsEnd(ls[j])
  ELSE 0

\* The whole value of a line: the text after "FN:", or after the first ':'
\* of a TEL or EMAIL line.
ValueOf(l, prefix) ==
  IF prefix = FN THEN Drop(TextOf(l), 3) ELSE Drop(TextOf(l), IndexOf(TextOf(l), ":"))

\* The value of the last line with the prefix between the previous END:VCARD
\* and line e, empty when there is no such line.
LastValue(ls, e, prefix) ==
  LET ks == {k \in (PrevEnd(ls, e) + 1)..(e - 1) : HasPrefix(ls[k], prefix)}
  IN IF ks = {} THEN <<>>
     ELSE ValueOf(ls[CHOOSE k \in ks : \A j \in ks : j <= k], prefix)

\* The candidate contact of the END:VCARD line e, trimmed.
CandidateAt(ls, e) ==
  sanitize_contact(Contact(LastValue(ls, e, FN), LastValue(ls, e, TEL), LastValue(ls, e, EMAIL)))

\* The candidates of the file that pass the three grammars, in file order.
ValidCards(ls) ==
  For(LAMBDA out, e : IF IsEnd(ls[e]) /\ ValidContact(CandidateAt(ls, e))
                      THEN Append(out, CandidateAt(ls, e)) ELSE out,
      1, Len(ls), <<>>)

\* Every value of the file fits the field of a Contact it is read into.
ValuesFit(ls) ==
  \A k \in 1..Len(ls) :
    /\ HasPrefix(ls[k], FN) => Len(ValueOf(ls[k], FN)) <= MAX_NAME_LENGTH - 1
    /\ HasPrefix(ls[k], TEL) => Len(ValueOf(ls[k], TEL)) <= MAX_PHONE_LENGTH - 1
    /\ HasPrefix(ls[k], EMAIL) => Len(ValueOf(ls[k], EMAIL)) <= MAX_EMAIL_LENGTH - 1

\* The contacts an import added to the store.
Imported == SubSeq(contacts', contact_count + 1, Len(contacts'))

\* C18: the contacts an import adds are the candidates formed at the
\* END:VCARD lines, each of the last FN, TEL and EMAIL values since the
\* previous END:VCARD (empty without such a line), that pass the grammars: no
\* value of an earlier card is in them and no card without one of the three
\* values is stored.  For files whose values fit the fields of a Contact
\* and a store with room for the cards.
ImportTakesLastValuesOfEachCard ==
  [][(/\ result'.op = "import"
      /\ disk.vcf_in.exists
      /\ ValuesFit(disk.vcf_in.lines)
      /\ contact_count + Len(ValidCards(disk.vcf_in.lines)) <= MAX_CONTACTS)
       => /\ Imported = ValidCards(disk.vcf_in.lines)
          /\ \A k \in 1..Len(Imported) :
               Imported[k].name # <<>> /\ Imported[k].phone # <<>> /\ Imported[k].email # <<>>]_vars

\* C18 witness: the card with two TEL lines, then the card without EMAIL:
\* one contact was stored, with the phone of the second TEL line.
LastTelStoredAndNoLeak ==
  /\ result.op = "import"
  /\ result.n = 1
  /\ contact_count = 1
  /\ contacts[1] = Contact(Eve, P2, E1)
  /\ Len(disk.vcf_in.lines) = 11
  /\ disk.vcf_in.lines[9] = FN \o Bo

\* C19: an import only appends: the contacts of the store keep their slots
\* and values, the cards of the file that an empty store would take are
\* appended in file order until the store holds MAX_CONTACTS contacts, and
\* the number reported is the growth of the store; a file that cannot be
\* opened leaves the store as it was.
ImportOnlyAppends ==
  [][(result'.op = "import")
       => /\ SubSeq(contacts', 1, contact_count) = contacts
          /\ Len(contacts') <= MAX_CONTACTS
          /\ Imported = Take(import_from_vcf(disk.vcf_in, <<>>), MAX_CONTACTS - contact_count)
          /\ result'.n = Len(contacts') - contact_count
          /\ ~disk.vcf_in.exists => contacts' = contacts]_vars

\* C19 witness: a file of two valid cards was imported into a store of 99
\* contacts: the first card was appended, the second dropped.
ImportFilledTheStore ==
  /\ result.op = "import"
  /\ result.n = 1
  /\ contact_count = MAX_CONTACTS
  /\ contacts[MAX_CONTACTS - 1] = GenContact(MAX_CONTACTS - 1)
  /\ Len(import_from_vcf(disk.vcf_in, <<>>)) = 2
  /\ contacts[MAX_CONTACTS] = import_from_vcf(disk.vcf_in, <<>>)[1]

\* C20 as stated: every contact an import stores has the whole trimmed
\* values of its card's FN line and last TEL and EMAIL lines; a card with a
\* value longer than the field is not stored.
ImportStoresWholeValues ==
  [][(/\ result'.op = "import"
      /\ disk.vcf_in.exists
      /\ contact_count + Len(ValidCards(disk.vcf_in.lines)) <= MAX_CONTACTS)
       => Imported = ValidCards(disk.vcf_in.lines)]_vars

====
